---- MODULE Spec2Model ----
(***************************************************************************)
(* converSQL: the AI provider layer.                                       *)
(*                                                                         *)
(*   src/src/ai_service.py          AIService, BedrockClient, ClaudeClient *)
(*   src/src/ai_engines/base.py     AIEngineAdapter                        *)
(*   src/src/ai_engines/*_adapter.py  the three concrete adapters          *)
(*                                                                         *)
(* A Python string is a finite sequence of tokens; "" is <<>>.  The token  *)
(* "ws" is one whitespace character, "fence" is the three backticks, and   *)
(* the other tokens are words.  Words that differ only in case are         *)
(* different tokens, related by LowerTok and UpperTok.                     *)
(***************************************************************************)
EXTENDS Integers, Sequences, FiniteSets, TLC

\* Python's None.
None == "None"

\* The number of distinct user questions the callers ask.
NumQuestions == 2

Questions == 1..NumQuestions

\* The schema strings handed to generate_sql.
Schemas == {<<"TABLE", "ws", "data">>}

\* The lines schema strings are made of.  "nl" is the newline character and
\* "--" opens an SQL comment.
HeaderLine == <<"TABLE", "ws", "data">>

CommentLines == {<<"--", "ws", "loan id">>, <<"--", "ws", "identifier">>}

ColumnLines == {<<"loan_id", "ws", "VARCHAR">>, <<"loan_id", "ws", "BIGINT">>}

\* Schema strings of a header, an optional comment line and a column line.
KeySchemas ==
    {HeaderLine \o <<"nl">> \o col : col \in ColumnLines}
    \cup {HeaderLine \o <<"nl">> \o c \o <<"nl">> \o col :
             c \in CommentLines, col \in ColumnLines}

\* The longest text, in tokens, handed to the text helpers on their own.
MaxTextLen == 3

\* The tokens those texts are made of.
TextTokens ==
    {"ws", "fence", "sql", "query:", "SELECT", "DROP", "x", "selection", "backdrop"}

\* The count of AIService() constructor runs is kept up to this number.
MaxConstructions == 2

\* history.py: DEFAULT_HISTORY_LIMIT
DEFAULT_HISTORY_LIMIT == 15

\* The number of update_local_history calls made on one list.
MaxHistoryCalls == 17

\* The limits the callers pass to update_local_history.
HistoryLimits == {-1, 0, 1, 2, 3, DEFAULT_HISTORY_LIMIT}

\* core.py: the maximum pool size of return_duckdb_connection
MAX_POOL_SIZE == 5

\* The number of DuckDB connections a process opens: one more than the
\* pool keeps.
MaxConnections == MAX_POOL_SIZE + 1

\* The number of DuckDB connections a process opens where the sessions'
\* views are followed.
MaxViewConnections == 2

\* The Streamlit sessions that run queries.
Sessions == {"s1", "s2"}

\* The parquet files loaded, by the name of their view.
ParquetFiles == {"data"}

\* PROMPT_CACHE_TTL, in steps of the clock: the ttl st.cache_data is given.
PROMPT_CACHE_TTL == 2

----------------------------------------------------------------------------
\* Strings

LowerTok(t) ==
    CASE t = "SELECT" -> "select"
      [] t = "WITH"   -> "with"
      [] t = "DROP"   -> "drop"
      [] t = "SQL"    -> "sql"
      [] t = "Query:" -> "query:"
      [] OTHER        -> t

UpperTok(t) ==
    CASE t = "select" -> "SELECT"
      [] t = "with"   -> "WITH"
      [] t = "drop"   -> "DROP"
      [] t = "sql"    -> "SQL"
      [] t = "query:" -> "Query:"
      [] OTHER        -> t

\* str.lower()
Lower(s) == [i \in DOMAIN s |-> LowerTok(s[i])]

\* str.upper()
Upper(s) == [i \in DOMAIN s |-> UpperTok(s[i])]

\* str.startswith(p)
StartsWith(s, p) == Len(s) >= Len(p) /\ SubSeq(s, 1, Len(p)) = p

\* s[n:]
DropFirst(s, n) == SubSeq(s, n + 1, Len(s))

\* str.strip(): the string without its leading and trailing whitespace.
Strip(s) ==
    LET keep == {i \in DOMAIN s : s[i] # "ws"}
    IN  IF keep = {} THEN <<>>
        ELSE LET lo == CHOOSE i \in keep : \A j \in keep : i <= j
                 hi == CHOOSE i \in keep : \A j \in keep : i >= j
             IN  SubSeq(s, lo, hi)

\* substring test "tok in s" for a one-word needle
Contains(s, tok) == \E i \in DOMAIN s : s[i] = tok

\* The words that begin with the letters of another word: <<word, prefix>>.
WordPrefixes == {<<"selection", "select">>}

\* The words that hold the letters of another word further in: <<word, part>>.
WordInfixes == {<<"backdrop", "drop">>}

\* word.startswith(k), on the letters of the words
WordStartsWith(word, k) == word = k \/ <<word, k>> \in WordPrefixes

\* k in word, on the letters of the words
WordContains(word, k) == WordStartsWith(word, k) \/ <<word, k>> \in WordInfixes

RECURSIVE SplitAcc(_, _, _)
SplitAcc(s, cur, acc) ==
    IF s = <<>> THEN Append(acc, cur)
    ELSE IF Head(s) = "fence" THEN SplitAcc(Tail(s), <<>>, Append(acc, cur))
    ELSE SplitAcc(Tail(s), Append(cur, Head(s)), acc)

\* str.split("```")
SplitFence(s) == SplitAcc(s, <<>>, <<>>)

----------------------------------------------------------------------------
\* AIEngineAdapter: the helpers every adapter inherits

sql_keywords == {"select", "insert", "update", "delete", "create", "drop", "with"}

dangerous_keywords == {"drop", "delete", "truncate", "alter"}

\* validate_response turning down a text that holds a dangerous keyword.
validate_response_rejecting(sql) ==
    IF sql = <<>> \/ Strip(sql) = <<>>
    THEN [valid |-> FALSE, msg |-> <<"Empty SQL query generated">>]
    ELSE LET sql_lower == Strip(Lower(sql))
         IN  IF ~(\E k \in sql_keywords : WordStartsWith(sql_lower[1], k))
             THEN [valid |-> FALSE,
                   msg |-> <<"Generated text does not appear to be valid SQL">>]
             ELSE IF \E k \in dangerous_keywords, i \in DOMAIN sql_lower :
                        WordContains(sql_lower[i], k)
             THEN [valid |-> FALSE,
                   msg |-> <<"Warning: Query contains potentially destructive operations">>]
             ELSE [valid |-> TRUE, msg |-> <<>>]

\* AIEngineAdapter.validate_response(sql) -> (is_valid, message).  The two
\* keyword tests are startswith and "in" on the lower-cased text, so they go
\* by the letters of its words.
validate_response(sql) ==
    IF sql = <<>> \/ Strip(sql) = <<>>
    THEN [valid |-> FALSE, msg |-> <<"Empty SQL query generated">>]
    ELSE LET sql_lower == Strip(Lower(sql))
         IN  IF ~(\E k \in sql_keywords : WordStartsWith(sql_lower[1], k))
             THEN [valid |-> FALSE,
                   msg |-> <<"Generated text does not appear to be valid SQL">>]
             ELSE IF \E k \in dangerous_keywords, i \in DOMAIN sql_lower :
                        WordContains(sql_lower[i], k)
             THEN [valid |-> TRUE,
                   msg |-> <<"Warning: Query contains potentially destructive operations">>]
             ELSE [valid |-> TRUE, msg |-> <<>>]

\* The fence loop of clean_sql_response: the first part that is tagged "sql",
\* or (after the first) begins with SELECT or WITH, replaces the text.
FenceExtract(sql) ==
    LET parts == SplitFence(sql)
        P(i)  == Strip(parts[i])
        Tagged(i) == StartsWith(P(i), <<"sql">>)
        Starts(i) == i > 1 /\ (StartsWith(Upper(P(i)), <<"SELECT">>)
                               \/ StartsWith(Upper(P(i)), <<"WITH">>))
        hits  == {i \in DOMAIN parts : Tagged(i) \/ Starts(i)}
    IN  IF hits = {} THEN sql
        ELSE LET i == CHOOSE h \in hits : \A g \in hits : h <= g
             IN  IF Tagged(i) THEN Strip(DropFirst(P(i), 1)) ELSE Strip(P(i))

prefixes_to_remove ==
    << <<"here's the", "ws", "sql", "ws", "query:">>,
       <<"here is the", "ws", "sql", "ws", "query:">>,
       <<"sql", "ws", "query:">>,
       <<"query:">> >>

\* The prefix loop of clean_sql_response: the first listed prefix that the
\* lower-cased text starts with is cut off, once.
PrefixStrip(sql) ==
    LET sql_lower == Lower(sql)
        hits == {i \in DOMAIN prefixes_to_remove :
                    StartsWith(sql_lower, prefixes_to_remove[i])}
    IN  IF hits = {} THEN sql
        ELSE LET i == CHOOSE h \in hits : \A g \in hits : h <= g
             IN  Strip(DropFirst(sql, Len(prefixes_to_remove[i])))

\* AIEngineAdapter.clean_sql_response(response)
clean_sql_response(response) ==
    LET sql == Strip(response)
        unfenced == IF Contains(sql, "fence") THEN FenceExtract(sql) ELSE sql
    IN  PrefixStrip(unfenced)

----------------------------------------------------------------------------
\* Vendor responses

\* Raw texts a vendor model may answer with.
RawTexts ==
    { <<>>,
      <<"ws">>,
      <<"SELECT", "ws", "x">>,
      <<"fence", "sql", "ws", "SELECT", "ws", "x", "ws", "fence">>,
      <<"fence", "sql", "ws", "text", "fence">>,
      <<"Query:", "ws", "select", "ws", "x">>,
      <<"text", "ws", "text">>,
      <<"DROP", "ws", "x">> }

NoOutcome == [kind |-> "none", text |-> <<>>, feedback |-> "none"]

\* What one call on a vendor client does: it returns a response carrying a
\* text, returns a body without the expected fields, or raises.
Outcomes ==
    [kind : {"text"}, text : RawTexts, feedback : {"none"}]
    \cup {[kind |-> "malformed", text |-> <<"malformed response">>, feedback |-> "none"],
          [kind |-> "raise", text |-> <<"rate limit">>, feedback |-> "none"]}

----------------------------------------------------------------------------
\* State

VARIABLES
    AI_PROVIDER,          \* ai_service.py:18, lower-cased
    ENABLE_BEDROCK,       \* ai_service.py:22
    CLAUDE_API_KEY,       \* ai_service.py:19, TRUE when set and non-empty
    ENABLE_PROMPT_CACHE,  \* ai_service.py:23
    ai_service,           \* the module global _ai_service: None or "AIService"
    bedrock_client,       \* AIService.bedrock.client
    claude_client,        \* AIService.claude.client
    probe,                \* outcome of each client's test request in _initialize
    active_provider,      \* AIService.active_provider
    constructions,        \* how many times AIService.__init__ has run
    hist_obj,             \* the list object the caller of update_local_history
                          \* holds: 0 for None, else the object's identity
    hist_list,            \* the entries of that list, each the ordinal of its insertion
    hist_calls,           \* the update_local_history calls made so far
    hist_limit,           \* the limit the caller passes
    pool,                 \* the list get_duckdb_pool returns: connections, last in first out
    held,                 \* the connections taken by get_duckdb_connection and not returned
    conn_count,           \* the connections duckdb.connect() has opened
    closes,               \* how many times each connection was closed
    conn_views,           \* the views that exist on each connection
    registered_views,     \* each session's st.session_state["registered_views"]
    exec,                 \* the most recent execute_sql_query call
    ENABLE_AUTH,          \* simple_auth.py:25
    DEMO_MODE,            \* simple_auth.py:26
    GOOGLE_CLIENT_ID,     \* simple_auth.py:23, TRUE when set and non-empty
    GOOGLE_CLIENT_SECRET, \* simple_auth.py:24, TRUE when set and non-empty
    session_state,        \* one browser session's st.session_state: the value
                          \* under each key, or Absent
    query_params,         \* st.query_params of that session
    auth_last,            \* the most recent run of the wrapped app
    st_cache,             \* st.cache_data's memo of _cached_generate_sql:
                          \* the age of the entry stored under each key
    last                  \* the most recent call and what it returned

vars == <<AI_PROVIDER, ENABLE_BEDROCK, CLAUDE_API_KEY, ENABLE_PROMPT_CACHE,
          ai_service, bedrock_client, claude_client, probe, active_provider,
          constructions, st_cache, last,
          hist_obj, hist_list, hist_calls, hist_limit,
          pool, held, conn_count, closes, conn_views, registered_views, exec,
          ENABLE_AUTH, DEMO_MODE, GOOGLE_CLIENT_ID, GOOGLE_CLIENT_SECRET,
          session_state, query_params, auth_last>>

env == <<AI_PROVIDER, ENABLE_BEDROCK, CLAUDE_API_KEY, ENABLE_PROMPT_CACHE>>

service == <<ai_service, bedrock_client, claude_client, probe, active_provider,
            constructions>>

history == <<hist_obj, hist_list, hist_calls, hist_limit>>

duckdb == <<pool, held, conn_count, closes, conn_views, registered_views, exec>>

auth == <<ENABLE_AUTH, DEMO_MODE, GOOGLE_CLIENT_ID, GOOGLE_CLIENT_SECRET,
         session_state, query_params, auth_last>>

\* The state outside the AI provider layer.
app == <<history, duckdb, auth>>

Connections == 1..MaxConnections

NoExec == [op |-> "none", session |-> "", views |-> {}, files |-> {},
           result |-> "none", full |-> FALSE]

ProviderIds == {"bedrock", "claude", "gemini"}

NoCall ==
    [op |-> "none", arg |-> "", q |-> 0, s |-> <<>>, sql |-> <<>>, error |-> <<>>,
     provider_used |-> <<>>, raised |-> None, vendor_calls |-> 0,
     prompt_built |-> FALSE, cache_touched |-> FALSE, cache_error |-> FALSE,
     available |-> FALSE, ret |-> None, out |-> NoOutcome, key |-> <<>>,
     vendors |-> <<>>]

\* No query history yet.
HistoryStart ==
    /\ hist_obj = 0
    /\ hist_list = <<>>
    /\ hist_calls = 0
    /\ hist_limit = DEFAULT_HISTORY_LIMIT

\* A key that is not in st.session_state or st.query_params; get() of it is None.
Absent == "absent"

\* The keys of st.session_state the authentication code reads or deletes.
SessionKeys ==
    {"user", "oauth_state", "generated_sql", "bedrock_error", "user_question",
     "show_edit_sql", "query_history"}

\* A session that holds none of those keys.
EmptySession == [k \in SessionKeys |-> Absent]

\* A URL without query parameters.
NoParams == [code |-> Absent, state |-> Absent, error |-> Absent]

NoAuthCall ==
    [op |-> "none", callback |-> "none", exchanged |-> FALSE,
     received |-> Absent, stored |-> Absent, token |-> None, sent |-> FALSE,
     user_before |-> Absent, user_after_callback |-> Absent,
     user_at_gate |-> Absent, main |-> FALSE, login_page |-> FALSE,
     signed_out |-> FALSE]

\* A new browser session on a plain URL, before the first run.
SessionStart ==
    /\ session_state = EmptySession
    /\ query_params = NoParams
    /\ auth_last = NoAuthCall

\* The defaults of simple_auth.py with no Google credentials configured.
AuthStart ==
    /\ ENABLE_AUTH = TRUE
    /\ DEMO_MODE = FALSE
    /\ GOOGLE_CLIENT_ID = FALSE
    /\ GOOGLE_CLIENT_SECRET = FALSE
    /\ SessionStart

\* No connection opened and no query run yet.
DuckdbStart ==
    /\ pool = <<>>
    /\ held = {}
    /\ conn_count = 0
    /\ closes = [c \in Connections |-> 0]
    /\ conn_views = [c \in Connections |-> {}]
    /\ registered_views = [s \in Sessions |-> {}]
    /\ exec = NoExec

\* The module as imported: configuration read from the environment, no
\* service constructed yet.
Init ==
    /\ DuckdbStart
    /\ AuthStart
    /\ HistoryStart
    /\ AI_PROVIDER \in ProviderIds
    /\ ENABLE_BEDROCK \in BOOLEAN
    /\ CLAUDE_API_KEY \in BOOLEAN
    /\ ENABLE_PROMPT_CACHE \in BOOLEAN
    /\ ai_service = None
    /\ bedrock_client = None
    /\ claude_client = None
    /\ probe = [bedrock |-> "none", claude |-> "none"]
    /\ active_provider = None
    /\ constructions = 0
    /\ st_cache = <<>>
    /\ last = NoCall

----------------------------------------------------------------------------
\* Construction

\* How a client's _initialize goes: the SDK import or the client constructor
\* raises, or the client is built and its test request fails or succeeds.
InitOutcomes == {"raise", "probe_fail", "ok"}

\* BedrockClient._initialize giving up also when the Claude key is missing.
BedrockClient_initialize_shared(how) ==
    IF ~ENABLE_BEDROCK \/ ~CLAUDE_API_KEY THEN None
    ELSE IF how = "raise" THEN None
    ELSE "client"

\* BedrockClient._initialize: the client it leaves in self.client
BedrockClient_initialize(how) ==
    IF ~ENABLE_BEDROCK THEN None
    ELSE IF how = "raise" THEN None
    ELSE "client"

\* ClaudeClient._initialize: the client it leaves in self.client
ClaudeClient_initialize(how) ==
    IF ~CLAUDE_API_KEY THEN None
    ELSE IF how = "raise" THEN None
    ELSE "client"

\* BedrockClient.is_available / ClaudeClient.is_available
is_available(client) == client # None

\* _determine_active_provider with the availability test of the configured
\* default left out.
determine_active_provider_unchecked(default, bedrock, claude) ==
    IF default = "claude" THEN "claude"
    ELSE IF default = "bedrock" THEN "bedrock"
    ELSE IF is_available(claude) THEN "claude"
    ELSE IF is_available(bedrock) THEN "bedrock"
    ELSE None

\* AIService._determine_active_provider
determine_active_provider(default, bedrock, claude) ==
    IF default = "claude" /\ is_available(claude) THEN "claude"
    ELSE IF default = "bedrock" /\ is_available(bedrock) THEN "bedrock"
    ELSE IF is_available(claude) THEN "claude"
    ELSE IF is_available(bedrock) THEN "bedrock"
    ELSE None

\* get_ai_service always constructing, whatever the global holds.
ServiceMissing_always == TRUE

\* `_ai_service is None`, the test of get_ai_service
ServiceMissing == ai_service = None

\* _ai_service = AIService(): AIService.__init__
AIService_init(bhow, chow) ==
    /\ ai_service' = "AIService"
    /\ bedrock_client' = BedrockClient_initialize(bhow)
    /\ claude_client' = ClaudeClient_initialize(chow)
    /\ probe' = [bedrock |-> IF ENABLE_BEDROCK /\ bhow # "raise" THEN bhow ELSE "none",
                 claude  |-> IF CLAUDE_API_KEY /\ chow # "raise" THEN chow ELSE "none"]
    /\ active_provider' =
          determine_active_provider(AI_PROVIDER, bedrock_client', claude_client')
    /\ constructions' = IF constructions < MaxConstructions
                        THEN constructions + 1 ELSE constructions

\* get_ai_service(): the first call of a process constructs the service
\* (the ways the two clients' initialization goes are its inputs), a later
\* call returns the instance the global holds.
get_ai_service(bhow, chow) ==
    /\ IF ServiceMissing
       THEN /\ AIService_init(bhow, chow)
            /\ last' = [NoCall EXCEPT !.op = "construct"]
       ELSE /\ bhow = "ok" /\ chow = "ok"
            /\ UNCHANGED service
            /\ last' = [NoCall EXCEPT !.op = "get_ai_service"]
    /\ UNCHANGED <<env, app, st_cache>>

\* initialize_ai_client(): get_ai_service(), then (service, provider) of an
\* available service and (None, "none") otherwise.
initialize_ai_client(bhow, chow) ==
    /\ IF ServiceMissing
       THEN AIService_init(bhow, chow)
       ELSE bhow = "ok" /\ chow = "ok" /\ UNCHANGED service
    /\ last' = [NoCall EXCEPT
                   !.op = "initialize_ai_client",
                   !.available = (active_provider' # None),
                   !.provider_used = IF active_provider' # None
                                     THEN <<active_provider'>> ELSE <<"none">>]
    /\ UNCHANGED <<env, app, st_cache>>

----------------------------------------------------------------------------
\* The service's vendor clients

\* BedrockClient.generate_sql(prompt) -> (sql, error); calls counts the
\* invoke_model requests it sent.
BedrockClient_generate_sql(client, out) ==
    IF client = None
    THEN [sql |-> <<>>, error |-> <<"Bedrock client not available">>, calls |-> 0]
    ELSE IF out.kind = "text"
    THEN [sql |-> Strip(out.text), error |-> <<>>, calls |-> 1]
    ELSE [sql |-> <<>>, error |-> <<"Bedrock error: ">> \o out.text, calls |-> 1]

\* ClaudeClient.generate_sql(prompt) -> (sql, error); calls counts the
\* messages.create requests it sent.
ClaudeClient_generate_sql(client, out) ==
    IF client = None
    THEN [sql |-> <<>>, error |-> <<"Claude API client not available">>, calls |-> 0]
    ELSE IF out.kind = "text"
    THEN [sql |-> Strip(out.text), error |-> <<>>, calls |-> 1]
    ELSE [sql |-> <<>>, error |-> <<"Claude API error: ">> \o out.text, calls |-> 1]

----------------------------------------------------------------------------
\* AIService

\* The message generate_sql returns when no provider is active.
NoProviderError ==
    <<"AI SQL Generation Unavailable",
      "No AI providers are configured or available",
      "Missing API keys", "Claude API key", "AWS credentials",
      "Network connectivity issues",
      "Service configuration problems",
      "Writing SQL queries manually in the Advanced tab">>

\* AIService._create_prompt_hash: the digest of "question|schema|provider".
\* The digest is taken of the strings as they are given; it is modelled by
\* its argument, two different arguments giving two different digests.
create_prompt_hash(q, s, provider) == <<q, s, provider>>

\* service._create_prompt_hash(user_question, schema_context)
AIService_create_prompt_hash(q, s) ==
    /\ ai_service # None
    /\ last' = [NoCall EXCEPT !.op = "create_prompt_hash", !.q = q, !.s = s,
                              !.key = create_prompt_hash(q, s, active_provider)]
    /\ UNCHANGED <<env, app, service, st_cache>>

\* AIService._cached_generate_sql: the value the memoized placeholder returns
cached_generate_sql(q, s, provider) == << <<>>, <<>> >>

\* The memo after a call of the decorated _cached_generate_sql with the
\* arguments key: a stored entry is returned as it is and keeps its age, a
\* missing one is computed and stored with age 0.
st_cache_data(memo, key) ==
    [k \in DOMAIN memo \cup {key} |-> IF k \in DOMAIN memo THEN memo[k] ELSE 0]

\* The dispatch of generate_sql asking the other provider's client too when
\* the active provider's client returned an error.
ActiveClient_generate_sql_fallback(out) ==
    LET first == IF active_provider = "claude"
                 THEN ClaudeClient_generate_sql(claude_client, out)
                 ELSE BedrockClient_generate_sql(bedrock_client, out)
        other == IF active_provider = "claude" THEN "bedrock" ELSE "claude"
        second == IF active_provider = "claude"
                  THEN BedrockClient_generate_sql(bedrock_client, out)
                  ELSE ClaudeClient_generate_sql(claude_client, out)
    IN  IF first.error = <<>>
        THEN [sql |-> first.sql, error |-> first.error, calls |-> first.calls,
              vendors |-> <<active_provider>>]
        ELSE [sql |-> second.sql, error |-> second.error,
              calls |-> first.calls + second.calls,
              vendors |-> <<active_provider, other>>]

\* The dispatch of generate_sql (lines 315-320): what the active provider's
\* client does with the prompt.  vendors lists the providers whose client
\* sent a request.
ActiveClient_generate_sql(out) ==
    LET r == IF active_provider = "claude"
             THEN ClaudeClient_generate_sql(claude_client, out)
             ELSE BedrockClient_generate_sql(bedrock_client, out)
    IN  [sql |-> r.sql, error |-> r.error, calls |-> r.calls,
         vendors |-> IF r.calls > 0 THEN <<active_provider>> ELSE <<>>]

\* AIService.generate_sql(user_question, schema_context).  Whether the cache
\* layer raises in this call (cerr) and the vendor's answer (out) are the
\* call's inputs.
AIService_generate_sql(q, s) ==
    /\ ai_service # None
    /\ LET call == [NoCall EXCEPT !.op = "generate_sql", !.q = q, !.s = s]
           key == <<q, s, active_provider>>
           cached == cached_generate_sql(q, s, active_provider)
       IN  IF active_provider = None
           THEN /\ last' = [call EXCEPT !.error = NoProviderError,
                                        !.provider_used = <<"none">>]
                /\ st_cache' = st_cache
           ELSE \E cerr \in IF ENABLE_PROMPT_CACHE THEN BOOLEAN ELSE {FALSE} :
                  LET cache_on == ENABLE_PROMPT_CACHE /\ ~cerr
                      stored == IF cache_on THEN st_cache_data(st_cache, key) ELSE st_cache
                  IN  IF cache_on /\ cached[1] # <<>>
                      THEN /\ last' = [call EXCEPT
                                          !.sql = cached[1], !.error = cached[2],
                                          !.provider_used = <<active_provider, " (cached)">>,
                                          !.cache_touched = TRUE,
                                          !.available = TRUE]
                           /\ st_cache' = stored
                      ELSE IF active_provider \notin {"claude", "bedrock"}
                      THEN /\ last' = [call EXCEPT
                                          !.error = <<"No AI provider available">>,
                                          !.provider_used = <<"none">>,
                                          !.prompt_built = TRUE,
                                          !.cache_touched = ENABLE_PROMPT_CACHE,
                                          !.cache_error = cerr]
                           /\ st_cache' = stored
                      ELSE \E out \in Outcomes :
                             LET r == ActiveClient_generate_sql(out)
                             IN  /\ last' = [call EXCEPT
                                                !.sql = r.sql, !.error = r.error,
                                                !.provider_used = <<active_provider>>,
                                                !.vendor_calls = r.calls,
                                                !.vendors = r.vendors,
                                                !.prompt_built = TRUE,
                                                !.cache_touched = ENABLE_PROMPT_CACHE,
                                                !.cache_error = cerr,
                                                !.available = TRUE,
                                                !.out = out]
                                 /\ st_cache' = stored
    /\ UNCHANGED <<env, app, service>>

\* AIService.get_provider_status
get_provider_status ==
    [bedrock |-> is_available(bedrock_client),
     claude  |-> is_available(claude_client),
     active  |-> active_provider]

\* The attributes of an AIService instance.
AIService_attributes ==
    {"bedrock", "claude", "active_provider", "_determine_active_provider",
     "is_available", "get_active_provider", "get_provider_status",
     "_create_prompt_hash", "_build_sql_prompt", "_cached_generate_sql",
     "generate_sql"}

\* ai_service.set_active_provider(id), as the sidebar calls it: the attribute
\* lookup on the instance.
set_active_provider(id) ==
    /\ ai_service # None
    /\ last' = [NoCall EXCEPT !.op = "set_active_provider", !.arg = id,
                              !.raised = IF "set_active_provider" \in AIService_attributes
                                         THEN None ELSE "AttributeError"]
    /\ UNCHANGED <<env, app, service, st_cache>>

----------------------------------------------------------------------------
\* The adapters of src/ai_engines

\* The abstract methods and properties AIEngineAdapter declares.
AbstractMethods == {"_initialize", "is_available", "generate_sql", "name", "provider_id"}

\* The methods and properties each concrete adapter class defines.
BedrockAdapter_defines ==
    {"__init__", "_initialize", "is_available", "_generate_sql_impl",
     "name", "provider_id", "get_model_info"}

ClaudeAdapter_defines ==
    {"__init__", "_initialize", "is_available", "_generate_sql_impl",
     "name", "provider_id", "get_model_info"}

GeminiAdapter_defines ==
    {"__init__", "_initialize", "is_available", "generate_sql",
     "name", "provider_id", "get_model_info", "set_safety_settings"}

Defines(k) ==
    CASE k = "bedrock" -> BedrockAdapter_defines
      [] k = "claude"  -> ClaudeAdapter_defines
      [] k = "gemini"  -> GeminiAdapter_defines

\* A class that leaves an abstract method undefined cannot be instantiated:
\* its constructor call raises TypeError.
Instantiable(k) == AbstractMethods \subseteq Defines(k)

\* GeminiAdapter._initialize: the model it leaves in self.model
GeminiAdapter_initialize(api_key, how) ==
    IF ~api_key THEN None
    ELSE IF how = "raise" THEN None
    ELSE "model"

\* GeminiAdapter.is_available
GeminiAdapter_is_available(model, api_key) == model # None /\ api_key

\* The remediation hint GeminiAdapter.generate_sql appends to a vendor error.
GeminiHint(msg) ==
    IF Contains(Lower(msg), "api key")
    THEN <<"Check GOOGLE_API_KEY or GEMINI_API_KEY environment variable">>
    ELSE IF Contains(Lower(msg), "quota") \/ Contains(Lower(msg), "rate limit")
    THEN <<"API quota exceeded or rate limited">>
    ELSE IF Contains(Lower(msg), "safety") \/ Contains(Lower(msg), "blocked")
    THEN <<"Content was blocked by safety filters">>
    ELSE IF Contains(Lower(msg), "model")
    THEN <<"Model may not be available or accessible">>
    ELSE <<>>

\* The block reasons a Gemini response's prompt_feedback may carry.
BlockReasons == {"SAFETY"}

\* What the Gemini model's generate_content may do.  The feedback "none"
\* is a response without a block_reason attribute; a response may also have
\* the attribute set to a block reason, or have it with no reason in it.
GeminiOutcomes ==
    Outcomes \cup [kind : {"text"}, text : {<<>>},
                   feedback : BlockReasons \cup {"BLOCK_REASON_UNSPECIFIED"}]

\* GeminiAdapter.generate_sql with the validation of the cleaned text left out.
GeminiAdapter_generate_sql_unvalidated(available, out) ==
    IF ~available
    THEN [sql |-> <<>>, calls |-> 0,
          error |-> <<"Gemini not available. Check GOOGLE_API_KEY configuration.">>]
    ELSE IF out.kind # "text"
    THEN [sql |-> <<>>, calls |-> 1,
          error |-> <<"Gemini API error: ">> \o out.text \o GeminiHint(out.text)]
    ELSE IF out.text # <<>>
    THEN [sql |-> clean_sql_response(out.text), calls |-> 1, error |-> <<>>]
    ELSE IF out.feedback # "none"
    THEN [sql |-> <<>>, calls |-> 1, error |-> <<"Response blocked: ", out.feedback>>]
    ELSE [sql |-> <<>>, calls |-> 1, error |-> <<"Gemini returned empty response">>]

\* GeminiAdapter.generate_sql(prompt) -> (sql, error); calls counts the
\* generate_content requests it sent.
GeminiAdapter_generate_sql(available, out) ==
    IF ~available
    THEN [sql |-> <<>>, calls |-> 0,
          error |-> <<"Gemini not available. Check GOOGLE_API_KEY configuration.">>]
    ELSE IF out.kind # "text"
    THEN [sql |-> <<>>, calls |-> 1,
          error |-> <<"Gemini API error: ">> \o out.text \o GeminiHint(out.text)]
    ELSE IF out.text # <<>>
    THEN LET sql_query == clean_sql_response(out.text)
             v == validate_response(sql_query)
         IN  IF ~v.valid
             THEN [sql |-> <<>>, calls |-> 1,
                   error |-> <<"Invalid SQL generated: ">> \o v.msg]
             ELSE [sql |-> sql_query, calls |-> 1, error |-> <<>>]
    ELSE IF out.feedback # "none"
    THEN [sql |-> <<>>, calls |-> 1, error |-> <<"Response blocked: ", out.feedback>>]
    ELSE [sql |-> <<>>, calls |-> 1, error |-> <<"Gemini returned empty response">>]

\* K() for the adapter class K with provider id k, with no config and no
\* credentials in the environment.
Adapter_construct(k) ==
    /\ LET call == [NoCall EXCEPT !.op = "adapter_construct", !.arg = k]
       IN  IF ~Instantiable(k)
           THEN last' = [call EXCEPT !.raised = "TypeError"]
           ELSE \E how \in InitOutcomes :
                  LET model == GeminiAdapter_initialize(FALSE, how)
                  IN  last' = [call EXCEPT
                                 !.ret = "adapter",
                                 !.available = GeminiAdapter_is_available(model, FALSE)]
    /\ UNCHANGED <<env, app, service, st_cache>>

\* K(config).generate_sql(prompt) for the adapter class K with provider id k:
\* the constructor call, then the method.  The configured key, the way
\* _initialize goes and the vendor's answer are the call's inputs.
Adapter_generate_sql(k) ==
    /\ LET call == [NoCall EXCEPT !.op = "adapter_generate_sql", !.arg = k]
       IN  IF ~Instantiable(k)
           THEN last' = [call EXCEPT !.raised = "TypeError"]
           ELSE \E api_key \in BOOLEAN, how \in InitOutcomes :
                  LET model == GeminiAdapter_initialize(api_key, how)
                      avail == GeminiAdapter_is_available(model, api_key)
                  IN  \E out \in IF avail THEN GeminiOutcomes ELSE {NoOutcome} :
                        LET r == GeminiAdapter_generate_sql(avail, out)
                        IN  last' = [call EXCEPT !.sql = r.sql, !.error = r.error,
                                                 !.vendor_calls = r.calls,
                                                 !.available = avail,
                                                 !.out = out]
    /\ UNCHANGED <<env, app, service, st_cache>>

----------------------------------------------------------------------------
\* The text helpers called on their own

\* Every text of at most MaxTextLen tokens.
TextInputs == UNION {[1..n -> TextTokens] : n \in 0..MaxTextLen}

\* A text at hand: last.out.text.
TextAtHand(x) ==
    [NoCall EXCEPT !.op = "text",
                   !.out = [kind |-> "text", text |-> x, feedback |-> "none"]]

\* The text the next helper call is given: the text at hand, or what the
\* previous clean_sql_response call returned.
HelperArgument ==
    IF last.op = "clean_sql_response" THEN last.sql ELSE last.out.text

\* adapter.clean_sql_response(x)
Adapter_clean_sql_response ==
    /\ last.op \in {"text", "clean_sql_response"}
    /\ last' = [TextAtHand(HelperArgument) EXCEPT
                   !.op = "clean_sql_response",
                   !.sql = clean_sql_response(HelperArgument)]
    /\ UNCHANGED <<env, app, service, st_cache>>

\* adapter.validate_response(x): ret and error are the pair it returns.
Adapter_validate_response ==
    /\ last.op \in {"text", "clean_sql_response"}
    /\ LET v == validate_response(HelperArgument)
       IN  last' = [TextAtHand(HelperArgument) EXCEPT
                      !.op = "validate_response",
                      !.ret = IF v.valid THEN "True" ELSE "False",
                      !.error = v.msg]
    /\ UNCHANGED <<env, app, service, st_cache>>

----------------------------------------------------------------------------
\* Query history (history.py)

\* update_local_history building a new list instead of changing the one
\* it is given.
ListAfterUpdate_copying(obj) == obj + 1

\* The list object update_local_history returns: the one passed, or a new
\* list when None is passed.
ListAfterUpdate(obj) == IF obj = 0 THEN 1 ELSE obj

\* update_local_history(history, entry=entry, limit=limit): the entries of
\* the list it returns.
update_local_history(entries, entry, limit) ==
    LET lim == IF limit <= 0 THEN DEFAULT_HISTORY_LIMIT ELSE limit
        inserted == <<entry>> \o entries
    IN  IF Len(inserted) > lim THEN SubSeq(inserted, 1, lim) ELSE inserted

\* history = update_local_history(history, entry=make_entry(i), limit=L)
UpdateLocalHistory ==
    /\ hist_calls < MaxHistoryCalls
    /\ hist_calls' = hist_calls + 1
    /\ hist_list' = update_local_history(hist_list, hist_calls + 1, hist_limit)
    /\ hist_obj' = ListAfterUpdate(hist_obj)
    /\ UNCHANGED <<env, service, st_cache, last, auth, hist_limit, duckdb>>

----------------------------------------------------------------------------
\* The DuckDB connection pool and execute_sql_query (core.py)

\* get_duckdb_connection(): the loop pops connections off the end of the
\* pool and closes those that fail `SELECT 1`, here the k last ones; the
\* next one is returned, or a new connection when the pool is used up.
\* The result is the connection, the pool left and the connections closed.
get_duckdb_connection(k) ==
    LET n == Len(pool)
    IN  [conn   |-> IF k < n THEN pool[n - k] ELSE conn_count + 1,
         pool   |-> IF k < n THEN SubSeq(pool, 1, n - k - 1) ELSE <<>>,
         closed |-> {pool[i] : i \in (n - k + 1)..n},
         fresh  |-> ~(k < n)]

\* return_duckdb_connection keeping every connection it is given.
return_duckdb_connection_unbounded(p, conn) ==
    [pool |-> Append(p, conn), closed |-> {}]

\* return_duckdb_connection(conn) on the pool p: the pool after it and the
\* connections it closed.
return_duckdb_connection(p, conn) ==
    IF Len(p) < MAX_POOL_SIZE
    THEN [pool |-> Append(p, conn), closed |-> {}]
    ELSE [pool |-> p, closed |-> {conn}]

\* closes after the connections of cs were closed once more.
Closed(cs) == [c \in Connections |-> IF c \in cs THEN closes[c] + 1 ELSE closes[c]]

\* A caller takes a connection: conn = get_duckdb_connection().  The
\* process opens at most cap connections.
GetDuckdbConnection(cap) ==
    \E k \in 0..Len(pool) :
       LET g == get_duckdb_connection(k)
       IN  /\ g.fresh => conn_count < cap
           /\ pool' = g.pool
           /\ held' = held \cup {g.conn}
           /\ conn_count' = IF g.fresh THEN conn_count + 1 ELSE conn_count
           /\ closes' = Closed(g.closed)
           /\ UNCHANGED <<env, service, st_cache, last, auth, history,
                          conn_views, registered_views, exec>>

\* A caller gives back the connection it took: return_duckdb_connection(conn)
ReturnDuckdbConnection ==
    \E c \in held :
       LET r == return_duckdb_connection(pool, c)
       IN  /\ pool' = r.pool
           /\ held' = held \ {c}
           /\ closes' = Closed(r.closed)
           /\ exec' = [NoExec EXCEPT !.op = "return_duckdb_connection",
                                     !.full = (r.closed # {})]
           /\ UNCHANGED <<env, service, st_cache, last, auth, history,
                          conn_count, conn_views, registered_views>>

\* execute_sql_query(sql_query, parquet_files) in the session s.  kind tells
\* whether the query text is empty, runs, or raises; k is the number of
\* pooled connections that fail the health check.  exec records the views
\* on the connection when the query was run and whether the pool was full
\* when the connection was given back.
execute_sql_query(s, kind, k, cap) ==
    IF kind = "empty"
    THEN /\ k = 0
         /\ exec' = [NoExec EXCEPT !.op = "execute_sql_query", !.session = s,
                                   !.result = "empty"]
         /\ UNCHANGED <<env, service, st_cache, last, auth, history,
                        pool, held, conn_count, closes, conn_views, registered_views>>
    ELSE LET g == get_duckdb_connection(k)
             conn == g.conn
             current_views == ParquetFiles
             to_register == ParquetFiles \ registered_views[s]
             stale_views == (registered_views[s] \cup to_register) \ current_views
             views == (conn_views[conn] \cup to_register) \ stale_views
             ran == kind = "runs" /\ ParquetFiles \subseteq views
             r == return_duckdb_connection(g.pool, conn)
         IN  /\ k <= Len(pool)
             /\ g.fresh => conn_count < cap
             /\ conn_count' = IF g.fresh THEN conn_count + 1 ELSE conn_count
             /\ conn_views' = [conn_views EXCEPT ![conn] = views]
             /\ registered_views' = [registered_views EXCEPT ![s] = current_views]
             /\ pool' = r.pool
             /\ closes' = Closed(g.closed \cup r.closed)
             /\ exec' = [op |-> "execute_sql_query", session |-> s,
                         views |-> views, files |-> ParquetFiles,
                         result |-> IF ran THEN "rows" ELSE "empty",
                         full |-> (r.closed # {})]
             /\ UNCHANGED <<env, service, st_cache, last, auth, history, held>>

-----------------------------------------------------------------------------
(* Authentication: simple_auth.py and simple_auth_components.py.           *)

\* The values secrets.token_urlsafe(16) can return.
OAuthStates == {"st1", "st2"}

\* The query parameters a URL can carry: Google's redirect, or a link
\* anybody made up.
QueryParams ==
    [code : {Absent, "code"},
     state : {Absent, "forged"} \cup OAuthStates,
     error : {Absent, "access_denied"}]

\* What Google's token endpoint answers: a token, JSON without an access
\* token, an error status, or no answer at all.
TokenResponses == {"200", "200_no_access_token", "400", "raise"}

\* What Google's userinfo endpoint answers; "200_incomplete" lacks id or email.
UserInfoResponses == {"200", "200_incomplete", "401"}

\* The keys main() and the tabs write while the user works.
AppKeys == {"generated_sql", "user_question", "show_edit_sql", "query_history"}

\* SimpleAuth.__init__: self.enabled
SimpleAuth_enabled == ENABLE_AUTH /\ GOOGLE_CLIENT_ID /\ GOOGLE_CLIENT_SECRET

\* SimpleAuth.is_authenticated
is_authenticated(ss) ==
    IF ~SimpleAuth_enabled THEN TRUE
    ELSE ss["user"] # Absent /\ ss["user"] # None

\* sign_out that forgets to delete the user.
sign_out_keeping_user(ss) ==
    [k \in SessionKeys |-> IF k = "user" THEN ss[k] ELSE Absent]

\* SimpleAuth.sign_out: the session it leaves
sign_out(ss) ==
    LET keys_to_clear == {"oauth_state", "generated_sql", "bedrock_error",
                          "user_question", "show_edit_sql", "query_history"}
    IN  [k \in SessionKeys |->
            IF k = "user" \/ k \in keys_to_clear THEN Absent ELSE ss[k]]

\* The state test of exchange_code_for_token passing whatever was received.
state_verified_lenient(state, stored_state) == TRUE

\* exchange_code_for_token goes on to the token request: the received state
\* equals the stored one, or DEMO_MODE continues despite the mismatch.
state_verified(state, stored_state) ==
    state = stored_state \/ DEMO_MODE

\* exchange_code_for_token: what it returns and whether it posted to
\* GOOGLE_TOKEN_URL.
exchange_code_for_token(ss, code, state, tresp) ==
    IF ~GOOGLE_CLIENT_ID \/ ~GOOGLE_CLIENT_SECRET
    THEN [token |-> None, sent |-> FALSE]
    ELSE IF ~state_verified(state, ss["oauth_state"])
    THEN [token |-> None, sent |-> FALSE]
    ELSE [token |-> CASE tresp = "200" -> "token_data"
                      [] tresp = "200_no_access_token" -> "no_access_token"
                      [] OTHER -> None,
          sent |-> TRUE]

\* get_user_info: the user Google reports, None on any failure
get_user_info(uresp) ==
    CASE uresp = "200" -> "alice"
      [] uresp = "200_incomplete" -> "incomplete"
      [] OTHER -> None

\* handle_oauth_callback: the session and query parameters it leaves, how it
\* ended, and the exchange it made.
handle_oauth_callback(ss, qp, tresp, uresp) ==
    LET quiet == [token |-> None, sent |-> FALSE]
        ex    == exchange_code_for_token(ss, qp.code, qp.state, tresp)
        user_info == get_user_info(uresp)
    IN  IF ~ENABLE_AUTH
        THEN [ss |-> ss, qp |-> qp, outcome |-> "disabled", exchanged |-> FALSE, ex |-> quiet]
        ELSE IF qp.code # Absent /\ qp.state # Absent
        THEN IF ex.token \in {None, "no_access_token"}
             THEN [ss |-> ss, qp |-> qp, outcome |-> "exchange_failed",
                   exchanged |-> TRUE, ex |-> ex]
             ELSE IF user_info = None
             THEN [ss |-> ss, qp |-> qp, outcome |-> "userinfo_failed",
                   exchanged |-> TRUE, ex |-> ex]
             ELSE IF user_info = "incomplete"
             THEN [ss |-> ss, qp |-> qp, outcome |-> "raised",
                   exchanged |-> TRUE, ex |-> ex]
             ELSE [ss |-> [ss EXCEPT !["user"] = user_info], qp |-> NoParams,
                   outcome |-> "success", exchanged |-> TRUE, ex |-> ex]
        ELSE IF qp.error # Absent
        THEN [ss |-> ss, qp |-> NoParams, outcome |-> "error",
              exchanged |-> FALSE, ex |-> quiet]
        ELSE [ss |-> ss, qp |-> qp, outcome |-> "none", exchanged |-> FALSE, ex |-> quiet]

\* generate_auth_url, called by render_login_page through get_auth_url: a new
\* state replaces the stored one.
generate_auth_url(ss, state) ==
    IF ~SimpleAuth_enabled \/ ~GOOGLE_CLIENT_ID THEN ss
    ELSE [ss EXCEPT !["oauth_state"] = state]

\* The main application function: the user's work leaves one of the
\* application's keys in the session, or none.
main(ss, key) ==
    IF key \in AppKeys THEN [ss EXCEPT ![key] = "set"] ELSE ss

\* One script run of simple_auth_wrapper(main)(): the callback first, then
\* the gate, then main and the user menu, whose Sign Out button was clicked
\* or not.  st.rerun() and an exception end the run where they happen.
simple_auth_wrapper(tresp, uresp, state, key, click) ==
    LET cb == handle_oauth_callback(session_state, query_params, tresp, uresp)
        seen == [NoAuthCall EXCEPT
                    !.op = "wrapper", !.callback = cb.outcome,
                    !.exchanged = cb.exchanged,
                    !.received = IF cb.exchanged THEN query_params.state ELSE Absent,
                    !.stored = IF cb.exchanged THEN session_state["oauth_state"] ELSE Absent,
                    !.token = cb.ex.token, !.sent = cb.ex.sent,
                    !.user_before = session_state["user"],
                    !.user_after_callback = cb.ss["user"],
                    !.user_at_gate = cb.ss["user"]]
    IN  /\ query_params' = cb.qp
        /\ IF cb.outcome \in {"success", "raised"}
           THEN /\ session_state' = cb.ss
                /\ auth_last' = seen
           ELSE IF ~SimpleAuth_enabled
           THEN /\ session_state' = main(cb.ss, key)
                /\ auth_last' = [seen EXCEPT !.main = TRUE]
           ELSE IF ~is_authenticated(cb.ss)
           THEN /\ session_state' = generate_auth_url(cb.ss, state)
                /\ auth_last' = [seen EXCEPT !.login_page = TRUE]
           ELSE /\ session_state' = IF click THEN sign_out(main(cb.ss, key))
                                    ELSE main(cb.ss, key)
                /\ auth_last' = [seen EXCEPT !.main = TRUE, !.signed_out = click]
        /\ UNCHANGED <<ENABLE_AUTH, DEMO_MODE, GOOGLE_CLIENT_ID, GOOGLE_CLIENT_SECRET>>
        /\ UNCHANGED <<env, service, st_cache, last, history, duckdb>>

\* The browser opens a URL: Google's redirect after a login, or any link.
\* A page load in a new tab starts a new session.
Navigate(qp, new_session) ==
    /\ query_params' = qp
    /\ session_state' = IF new_session THEN EmptySession ELSE session_state
    /\ auth_last' = [NoAuthCall EXCEPT !.op = "navigate"]
    /\ UNCHANGED <<ENABLE_AUTH, DEMO_MODE, GOOGLE_CLIENT_ID, GOOGLE_CLIENT_SECRET>>
    /\ UNCHANGED <<env, service, st_cache, last, history, duckdb>>

----------------------------------------------------------------------------
\* Time

\* One step of the clock.  st.cache_data counts an entry's ttl from the
\* moment it was stored; an entry that has reached the ttl is gone.
TimePasses ==
    /\ DOMAIN st_cache # {}
    /\ st_cache' = LET kept == {k \in DOMAIN st_cache : st_cache[k] + 1 < PROMPT_CACHE_TTL}
                   IN  [k \in kept |-> st_cache[k] + 1]
    /\ UNCHANGED <<env, app, service, last>>

----------------------------------------------------------------------------
\* Specification

Next ==
    \/ \E bhow, chow \in InitOutcomes : get_ai_service(bhow, chow)
    \/ \E bhow, chow \in InitOutcomes : initialize_ai_client(bhow, chow)
    \/ \E q \in Questions, s \in Schemas : AIService_generate_sql(q, s)
    \/ \E id \in ProviderIds \cup {"ollama"} : set_active_provider(id)
    \/ \E k \in ProviderIds : Adapter_generate_sql(k)
    \/ \E k \in ProviderIds : Adapter_construct(k)

Spec == Init /\ [][Next]_vars

\* The service with its response cache as time passes.
NextCache ==
    \/ \E bhow, chow \in InitOutcomes : get_ai_service(bhow, chow)
    \/ \E q \in Questions, s \in Schemas : AIService_generate_sql(q, s)
    \/ \E q \in Questions, s \in KeySchemas : AIService_create_prompt_hash(q, s)
    \/ TimePasses

SpecCache == Init /\ [][NextCache]_vars

\* An adapter's text helpers, which read no configuration and no state,
\* with a text at hand.
InitText ==
    /\ DuckdbStart
    /\ AuthStart
    /\ HistoryStart
    /\ AI_PROVIDER = "bedrock"
    /\ ENABLE_BEDROCK = FALSE
    /\ CLAUDE_API_KEY = FALSE
    /\ ENABLE_PROMPT_CACHE = FALSE
    /\ ai_service = None
    /\ bedrock_client = None
    /\ claude_client = None
    /\ probe = [bedrock |-> "none", claude |-> "none"]
    /\ active_provider = None
    /\ constructions = 0
    /\ st_cache = <<>>
    /\ \E x \in TextInputs : last = TextAtHand(x)

NextText ==
    \/ Adapter_clean_sql_response
    \/ Adapter_validate_response

SpecText == InitText /\ [][NextText]_vars

\* No service constructed and no call made yet.
ServiceStart ==
    /\ AI_PROVIDER = "bedrock"
    /\ ENABLE_BEDROCK = FALSE
    /\ CLAUDE_API_KEY = FALSE
    /\ ENABLE_PROMPT_CACHE = FALSE
    /\ ai_service = None
    /\ bedrock_client = None
    /\ claude_client = None
    /\ probe = [bedrock |-> "none", claude |-> "none"]
    /\ active_provider = None
    /\ constructions = 0
    /\ st_cache = <<>>
    /\ last = NoCall

\* A caller keeping a query history: it starts from None or from an empty
\* list and passes the same limit every time.
InitHistory ==
    /\ ServiceStart
    /\ DuckdbStart
    /\ AuthStart
    /\ hist_obj \in {0, 1}
    /\ hist_list = <<>>
    /\ hist_calls = 0
    /\ hist_limit \in HistoryLimits

NextHistory == UpdateLocalHistory

\* The sessions of one process running queries.
InitPool ==
    /\ ServiceStart
    /\ HistoryStart
    /\ DuckdbStart
    /\ AuthStart

NextPool ==
    \/ GetDuckdbConnection(MaxConnections)
    \/ ReturnDuckdbConnection
    \/ \E kind \in {"empty", "runs", "raises"}, k \in 0..MAX_POOL_SIZE :
          execute_sql_query("s1", kind, k, MaxConnections)

SpecPool == InitPool /\ [][NextPool]_vars

\* Two sessions of one process running queries on the shared pool.
NextViews ==
    \/ GetDuckdbConnection(MaxViewConnections)
    \/ ReturnDuckdbConnection
    \/ \E s \in Sessions, kind \in {"empty", "runs", "raises"},
          k \in 0..MaxViewConnections :
          execute_sql_query(s, kind, k, MaxViewConnections)

SpecViews == InitPool /\ [][NextViews]_vars

SpecHistory == InitHistory /\ [][NextHistory]_vars

\* One browser at a time using the app under every authentication
\* configuration.
InitAuth ==
    /\ ServiceStart
    /\ HistoryStart
    /\ DuckdbStart
    /\ ENABLE_AUTH \in BOOLEAN
    /\ DEMO_MODE \in BOOLEAN
    /\ GOOGLE_CLIENT_ID \in BOOLEAN
    /\ GOOGLE_CLIENT_SECRET \in BOOLEAN
    /\ SessionStart

NextAuth ==
    \/ \E qp \in QueryParams, new_session \in BOOLEAN : Navigate(qp, new_session)
    \/ \E tresp \in TokenResponses, uresp \in UserInfoResponses,
          state \in OAuthStates, key \in AppKeys \cup {"none"}, click \in BOOLEAN :
          \* userinfo is asked only with a token, and the run a click on
          \* Sign Out starts has no other input: one value stands for all
          /\ tresp # "200" => uresp = "200"
          /\ click => key = "none"
          /\ simple_auth_wrapper(tresp, uresp, state, key, click)

SpecAuth == InitAuth /\ [][NextAuth]_vars

----------------------------------------------------------------------------
\* Properties

\* C1: cache round-trip.  With the response cache enabled and working, a
\* generate_sql call that succeeded (non-empty sql, empty error), followed by
\* a call with the same question and schema while the active provider is
\* unchanged and no time has passed, is answered with the same sql, with
\* provider_used annotated "(cached)", and without a vendor call.
C1_CacheRoundTrip ==
    [][(/\ ENABLE_PROMPT_CACHE
        /\ last.op = "generate_sql" /\ ~last.cache_error
        /\ last.sql # <<>> /\ last.error = <<>>
        /\ last'.op = "generate_sql" /\ ~last'.cache_error
        /\ last'.q = last.q /\ last'.s = last.s
        /\ active_provider' = active_provider)
       => (/\ last'.sql = last.sql
           /\ last'.provider_used = <<active_provider, " (cached)">>
           /\ last'.vendor_calls = 0)]_vars

\* C2: every AIService.generate_sql call returns exactly one of sql and
\* error non-empty.
C2_ExactlyOneOfSqlAndError ==
    last.op = "generate_sql" => ((last.sql = <<>>) # (last.error = <<>>))

\* The providers AIService reports a status for.
HeldProviders == DOMAIN get_provider_status \ {"active"}

\* is_available() of the client the service holds for provider p.  The
\* clients are set in __init__ only, so this is also what they reported at
\* the determination.
HeldAvailable(p) == p \in HeldProviders /\ get_provider_status[p]

\* C3: in every reachable state, active_provider is unset or names a
\* provider the service holds whose is_available() is true.
C3_ActiveProviderAvailable ==
    active_provider = None
    \/ (active_provider \in HeldProviders /\ HeldAvailable(active_provider))

\* C3 witness: a service that fell back from an unavailable default, after a
\* generate_sql call.
C3_Witness ==
    /\ last.op = "generate_sql"
    /\ active_provider # None
    /\ active_provider # AI_PROVIDER
    /\ AI_PROVIDER \in HeldProviders

\* The provider the determination rule of C4 selects: the default if
\* available, else the first available of bedrock, claude, gemini, else none.
C4_Selected ==
    IF HeldAvailable(AI_PROVIDER) THEN AI_PROVIDER
    ELSE IF HeldAvailable("bedrock") THEN "bedrock"
    ELSE IF HeldAvailable("claude") THEN "claude"
    ELSE IF HeldAvailable("gemini") THEN "gemini"
    ELSE None

\* C4: after construction active_provider is the configured default if that
\* provider is available, otherwise the first available provider in the
\* order bedrock, claude, gemini, and unset only if none is available.
C4_ProviderDetermination ==
    ai_service # None => active_provider = C4_Selected

\* C5: set_active_provider(id) returns true exactly when id names an
\* available provider, and then active_provider is id; otherwise it returns
\* false.  It never raises.
C5_SetActiveProvider ==
    last.op = "set_active_provider" =>
       /\ last.raised = None
       /\ last.ret = IF HeldAvailable(last.arg) THEN "True" ELSE "False"
       /\ (last.ret = "True" => active_provider = last.arg)

\* C6: for each adapter class, a generate_sql call on an adapter that is not
\* available returns ("", e) with e non-empty and sends nothing to the vendor.
C6_UnavailableAdapterReturnsError ==
    (last.op = "adapter_generate_sql" /\ ~last.available) =>
       /\ last.raised = None
       /\ last.sql = <<>>
       /\ last.error # <<>>
       /\ last.vendor_calls = 0

\* C7: generate_sql never raises, on an adapter or on the service.
C7_GenerateSqlNeverRaises ==
    last.op \in {"generate_sql", "adapter_generate_sql"} => last.raised = None

\* The words by which a message tells how to configure provider p.
ConfigurationWords(p) ==
    CASE p = "bedrock" -> {"AWS credentials"}
      [] p = "claude"  -> {"Claude API key", "CLAUDE_API_KEY"}
      [] p = "gemini"  -> {"Gemini API key", "Google API key", "GOOGLE_API_KEY"}

\* C8: with no active provider, generate_sql returns sql "" and a non-empty
\* error that covers the configuration of each of the three providers, and
\* builds no prompt, touches no cache and calls no vendor.
C8_NoProviderError ==
    (last.op = "generate_sql" /\ active_provider = None) =>
       /\ last.sql = <<>>
       /\ last.error # <<>>
       /\ \A p \in ProviderIds : \E w \in ConfigurationWords(p) : Contains(last.error, w)
       /\ ~last.prompt_built
       /\ ~last.cache_touched
       /\ last.vendor_calls = 0

SqlStatements == {<<"SELECT", "ws", "x">>}

\* A ```sql fenced block wrapping the statement S.
FencedSql(S) == <<"fence", "sql", "ws">> \o S \o <<"ws", "fence">>

\* C10: when the active provider's vendor answers with a ```sql fenced block
\* wrapping S, generate_sql returns (S, "", active_provider).
C10_ServiceReturnsCleanedSql ==
    \A S \in SqlStatements :
       (last.op = "generate_sql" /\ last.out.kind = "text"
          /\ last.out.text = FencedSql(S)) =>
          /\ last.sql = S
          /\ last.error = <<>>
          /\ last.provider_used = <<active_provider>>

\* The value st.cache_data holds under the key k of its memo.
StoredValue(k) == cached_generate_sql(k[1], k[2], k[3])

\* C11: every entry stored in the response cache has a non-empty sql that
\* passes validate_response and an empty error.
C11_CacheContentInvariant ==
    \A k \in DOMAIN st_cache :
       /\ StoredValue(k)[1] # <<>>
       /\ validate_response(StoredValue(k)[1]).valid
       /\ StoredValue(k)[2] = <<>>

RECURSIVE SplitLinesAcc(_, _, _)
SplitLinesAcc(s, cur, acc) ==
    IF s = <<>> THEN Append(acc, cur)
    ELSE IF Head(s) = "nl" THEN SplitLinesAcc(Tail(s), <<>>, Append(acc, cur))
    ELSE SplitLinesAcc(Tail(s), Append(cur, Head(s)), acc)

\* The lines of a schema string.
SplitLines(s) == SplitLinesAcc(s, <<>>, <<>>)

\* A line that holds nothing but a comment.
IsCommentLine(l) == StartsWith(Strip(l), <<"--">>)

\* The lines of a schema string that are not comment-only lines: its table
\* and column definitions.
DefinitionLines(s) == SelectSeq(SplitLines(s), LAMBDA l : ~IsCommentLine(l))

\* C12: for a fixed question and active provider, the cache keys of two
\* schema strings are equal when the strings differ only in comment-only
\* lines, and different when they differ in a column definition line.
C12_CacheKeySensitivity ==
    [][(/\ last.op = "create_prompt_hash"
        /\ last'.op = "create_prompt_hash"
        /\ last'.q = last.q
        /\ active_provider' = active_provider)
       => (/\ DefinitionLines(last'.s) = DefinitionLines(last.s)
               => last'.key = last.key
           /\ DefinitionLines(last'.s) # DefinitionLines(last.s)
               => last'.key # last.key)]_vars

\* The maximum number of entries a deployment configures for the response
\* cache, taken below the number of distinct questions asked so that the
\* callers can overfill the cache.
C13_MaximumEntries == NumQuestions - 1

\* C13: the response cache never holds more entries than the configured
\* maximum, and an entry that a generate_sql call evicts is at least as old
\* as every entry that remains.
C13_CacheEviction ==
    [][/\ Cardinality(DOMAIN st_cache') <= C13_MaximumEntries
       /\ last'.op = "generate_sql" =>
             \A k \in DOMAIN st_cache \ DOMAIN st_cache' :
                \A j \in DOMAIN st_cache \cap DOMAIN st_cache' :
                   st_cache[j] <= st_cache[k]]_vars

\* C14: sliding TTL.  A generate_sql call that follows a successful call for
\* the same question and schema, with the cache enabled and working, is not
\* a hit when the entry's last insert or access is the TTL or longer ago; is
\* a hit when that is less than the TTL ago; and a hit sets the entry's age
\* back to 0.
C14_SlidingTTL ==
    [][(/\ ENABLE_PROMPT_CACHE
        /\ last.op = "generate_sql" /\ ~last.cache_error
        /\ last.sql # <<>> /\ last.error = <<>>
        /\ last'.op = "generate_sql" /\ ~last'.cache_error
        /\ last'.q = last.q /\ last'.s = last.s)
       => LET key == <<last'.q, last'.s, active_provider>>
              hit == last'.provider_used = <<active_provider, " (cached)">>
          IN  /\ key \notin DOMAIN st_cache => (~hit /\ last'.vendor_calls = 1)
              /\ (key \in DOMAIN st_cache /\ st_cache[key] > 0) => hit
              /\ hit => st_cache'[key] = 0]_vars

\* C15: clean_sql_response is idempotent: applied to what it returned, it
\* returns the same text.
C15_CleanIdempotent ==
    [][(/\ last.op = "clean_sql_response"
        /\ last'.op = "clean_sql_response"
        /\ last'.out.text = last.sql)
       => last'.sql = last.sql]_vars

\* The first token of a text, lower-cased; "" for a text with none.
FirstToken(x) == IF Strip(x) = <<>> THEN "" ELSE LowerTok(Strip(x)[1])

\* C16: validate_response rejects, with a non-empty message, every text
\* that is empty or whitespace-only and every text whose first token,
\* compared case-insensitively, is not in the allow-list.
C16_RejectsNonSql ==
    (last.op = "validate_response" /\ FirstToken(last.out.text) \notin sql_keywords) =>
       /\ last.ret = "False"
       /\ last.error # <<>>

\* The text holds the letters of a destructive keyword.
HoldsDestructive(x) ==
    \E k \in dangerous_keywords, i \in DOMAIN x : WordContains(LowerTok(x[i]), k)

C18_HoldsAllThreeAdapters ==
    ai_service # None =>
       /\ "adapters" \in AIService_attributes
       /\ DOMAIN get_provider_status = ProviderIds \cup {"active"}
       /\ \A p \in ProviderIds : get_provider_status[p] \in BOOLEAN

\* What the adapter contract asks of an adapter object.
AdapterContract == {"name", "provider_id", "is_available", "generate_sql"}

\* C19: each concrete adapter class, called with no config and no
\* credentials, returns an adapter without raising, and the adapter has
\* name, provider_id, is_available and generate_sql.
C19_AdapterConstructs ==
    last.op = "adapter_construct" =>
       /\ last.raised = None
       /\ last.ret = "adapter"
       /\ AdapterContract \subseteq Defines(last.arg)

\* C20: constructing AIService does not raise, whatever way each client's
\* initialization goes, and each client is available exactly when its own
\* initialization got a client.
C20_InitializationIsolation ==
    /\ last.op = "construct" => (last.raised = None /\ ai_service # None)
    /\ ai_service # None =>
          /\ is_available(bedrock_client) <=> probe.bedrock # "none"
          /\ is_available(claude_client) <=> probe.claude # "none"

\* C20 witness: Bedrock is enabled and its initialization failed, and the
\* Claude client is available.
C20_Witness ==
    /\ last.op = "construct"
    /\ ENABLE_BEDROCK
    /\ probe.bedrock = "none"
    /\ ~is_available(bedrock_client)
    /\ is_available(claude_client)

C22_Limit(L) == IF L > 0 THEN L ELSE 15

\* C22: after n update_local_history calls on one list with the limit L,
\* the list holds min(n, L) entries, the most recently inserted ones,
\* newest first; a list that was passed is the list returned; and a limit
\* of 0 or less acts as the limit 15.
C22_HistoryBoundAndOrder ==
    [][hist_calls' = hist_calls + 1 =>
         LET n == hist_calls'
             len == IF n < C22_Limit(hist_limit) THEN n ELSE C22_Limit(hist_limit)
         IN  /\ Len(hist_list') = len
             /\ \A i \in 1..len : hist_list'[i] = n - i + 1
             /\ hist_obj # 0 => hist_obj' = hist_obj]_vars

\* C22 witness: more calls than the limit were made on a list that was
\* passed, and the list is at the limit.
C22_Witness ==
    /\ hist_limit = 3
    /\ hist_calls > 3
    /\ Len(hist_list) = 3
    /\ hist_obj # 0

\* C23: after the active provider was switched to another available
\* provider B, the next generate_sql call is not answered from the cache
\* with what the earlier provider generated: it goes to B's vendor and
\* reports B.
C23_CachePerProvider ==
    [][(/\ last.op = "set_active_provider"
        /\ HeldAvailable(last.arg)
        /\ last.arg # active_provider
        /\ last'.op = "generate_sql")
       => (/\ last'.vendors = <<last.arg>>
           /\ last'.provider_used = <<last.arg>>)]_vars

\* The error a provider's client makes of a vendor failure.
VendorError(p, out) ==
    (IF p = "claude" THEN <<"Claude API error: ">> ELSE <<"Bedrock error: ">>) \o out.text

\* C24: one generate_sql call sends at most one vendor request, and only
\* through the active provider's client; when the vendor call fails the
\* call returns that client's error with an empty sql; and the call leaves
\* active_provider as it was.
C24_NoRetryNoFanOut ==
    [][last'.op = "generate_sql" =>
         /\ last'.vendor_calls <= 1
         /\ last'.vendors \in {<<>>, <<active_provider>>}
         /\ Len(last'.vendors) = last'.vendor_calls
         /\ (last'.vendor_calls = 1 /\ last'.out.kind # "text") =>
               /\ last'.sql = <<>>
               /\ last'.error = VendorError(active_provider, last'.out)
         /\ active_provider' = active_provider]_vars

\* C24 witness: the active provider's vendor call failed while the other
\* provider was available too.
C24_Witness ==
    /\ last.op = "generate_sql"
    /\ last.out.kind = "raise"
    /\ last.vendor_calls = 1
    /\ is_available(bedrock_client)
    /\ is_available(claude_client)

\* C25: when the list-models request of Bedrock's initialization failed,
\* Bedrock is not available and is not the active provider.
C25_BedrockProbeGate ==
    probe.bedrock = "probe_fail" =>
       /\ ~is_available(bedrock_client)
       /\ active_provider # "bedrock"

\* C26: on a response with empty text GeminiAdapter.generate_sql returns
\* "Response blocked: <reason>" when the response's feedback carries a
\* block reason, and "Gemini returned empty response" when it carries none.
C26_GeminiEmptyResponse ==
    (/\ last.op = "adapter_generate_sql" /\ last.arg = "gemini"
     /\ last.available
     /\ last.out.kind = "text" /\ last.out.text = <<>>) =>
       /\ last.sql = <<>>
       /\ last.error = IF last.out.feedback \in BlockReasons
                       THEN <<"Response blocked: ", last.out.feedback>>
                       ELSE <<"Gemini returned empty response">>

\* Connection c is in the pool.
InPool(c) == \E i \in DOMAIN pool : pool[i] = c

\* C27: the pool never holds more than 5 connections and never the same
\* connection twice; no connection is closed twice; and the connection an
\* execute_sql_query call took is afterwards in the pool or closed once,
\* not both.
C27_ConnectionPool ==
    /\ Len(pool) <= 5
    /\ \A i, j \in DOMAIN pool : pool[i] = pool[j] => i = j
    /\ \A c \in Connections : closes[c] <= 1
    /\ \A c \in 1..conn_count :
          Cardinality({x \in {"pool", "held", "closed"} :
                          \/ (x = "pool" /\ InPool(c))
                          \/ (x = "held" /\ c \in held)
                          \/ (x = "closed" /\ closes[c] = 1)}) = 1

\* C27 witness: a connection was given back while the pool was full, and
\* was closed.
C27_Witness ==
    /\ exec.op = "return_duckdb_connection"
    /\ exec.full
    /\ Len(pool) = 5
    /\ \E c \in Connections : closes[c] = 1

\* C28: whenever execute_sql_query runs the user's SQL on a connection, a
\* view for every file of parquet_files exists on that connection.
C28_ViewsRegistered ==
    exec.op = "execute_sql_query" => exec.files \subseteq exec.views

\* C29: with authentication enabled, a run invokes the main function only
\* when the session holds a user at the gate; a sign-out leaves the session
\* without the user and without oauth_state, generated_sql, user_question,
\* show_edit_sql and query_history, so that is_authenticated() is False; and
\* a session without a user gets one only in a run whose OAuth callback
\* succeeded.
C29_AuthenticationGate ==
    [][/\ (SimpleAuth_enabled /\ auth_last'.main)
            => auth_last'.user_at_gate \notin {Absent, None}
       /\ auth_last'.signed_out
            => /\ \A k \in {"user", "oauth_state", "generated_sql",
                            "user_question", "show_edit_sql", "query_history"} :
                      session_state'[k] = Absent
               /\ ~is_authenticated(session_state')
       /\ (session_state["user"] = Absent /\ session_state'["user"] # Absent)
            => auth_last'.callback = "success"]_vars

\* A signed-in user who had asked a question clicked Sign Out.
C29_Witness ==
    /\ SimpleAuth_enabled
    /\ auth_last.op = "wrapper" /\ auth_last.main /\ auth_last.signed_out
    /\ auth_last.user_at_gate = "alice"

\* C30: outside demo mode, a callback whose state differs from the stored
\* oauth_state (none stored included) makes exchange_code_for_token return
\* None without posting the token request, and handle_oauth_callback does
\* not set the user.
C30_OAuthStateCheck ==
    (auth_last.exchanged /\ ~DEMO_MODE /\ auth_last.received # auth_last.stored)
        => /\ auth_last.token = None
           /\ ~auth_last.sent
           /\ auth_last.callback = "exchange_failed"
           /\ auth_last.user_after_callback = auth_last.user_before

\* A forged state met a configured production app, once with a state
\* stored; the session had no user and still has none.
C30_Witness ==
    /\ auth_last.exchanged /\ ~DEMO_MODE
    /\ GOOGLE_CLIENT_ID /\ GOOGLE_CLIENT_SECRET
    /\ auth_last.received = "forged" /\ auth_last.stored \in OAuthStates
    /\ auth_last.user_before = Absent /\ session_state["user"] = Absent

=============================================================================
